---------------------------- MODULE Spec2Model ----------------------------
(***************************************************************************)
(* Model of segmentation.py: get_img_feature_vector, kmeans_segmentation,  *)
(* meanshift_segmentation and draw_clusters_on_image.                      *)
(*                                                                         *)
(* Numbers.  A feature table holds integers: every entry is a real number  *)
(* expressed in one fixed unit (the table's unit is irrelevant to both     *)
(* clusterers apart from bandwidth, which is given in the same unit).  A   *)
(* float vector that the code obtains with np.mean is kept exactly, as the *)
(* pair (s, n) of the column sums and the number of rows averaged; n = 0   *)
(* is the all-NaN row numpy returns for the mean of an empty slice.        *)
(* Euclidean norms are compared through their squares, so no root and no   *)
(* rounding appears: the model is the code over exact reals plus NaN.      *)
(* A quotient x / m of get_img_feature_vector is kept as the pair          *)
(* <<x, m>>, with <<0, 0>> the NaN that 0.0 / 0.0 evaluates to.            *)
(*                                                                         *)
(* The file is Python 2 (xrange, lines 24 and 177), so i / W on line 168   *)
(* is floor division.                                                      *)
(***************************************************************************)
EXTENDS Integers, Sequences, FiniteSets, TLC

(* ------------------------------ bounds -------------------------------- *)
\* largest number of pixels H*W of an input of the two clusterers
MaxPixels == 5
\* largest num_clusters
MaxK == 2
\* loop iterations of kmeans_segmentation that are followed (the loop of a
\* run with an empty cluster has no exit)
MaxIter == 3
\* largest number of pixels of an image given to get_img_feature_vector or
\* draw_clusters_on_image
MaxImgPixels == 4
\* largest label of a label grid given to draw_clusters_on_image
MaxLabel == 1

\* feature values of the clusterers' input tables (one column)
FeatVals == {0, 2, 7, 8, 13}
\* bandwidths, in the unit of the feature table: below every gap of FeatVals,
\* between the gaps, and above the largest distance
Bandwidths == {1, 3, 6, 9, 14}
\* channel values of the images given to the feature builder and renderer
Colors == {<<0, 1, 2>>, <<1, 4, 2>>}
\* the two flat colours of the 4 x 4 end-to-end image
ColorA == <<1, 2, 4>>
ColorB == <<4, 2, 1>>

VARIABLES
    pc,                 \* position in the function being run
    H, W,               \* im.shape[0], im.shape[1]
    im,                 \* the image: [0..H-1 -> [0..W-1 -> <<c0, c1, c2>>]]
    is_int,             \* im.dtype is an integer type (imread) or a float one
    features,           \* feature table: [0..H*W-1 -> row], row a tuple
    features_normalized,\* get_img_feature_vector: features / features.max(axis=0)
    num_clusters,       \* kmeans_segmentation: K
    init_idx,           \* np.random.randint(num_pixels, size=num_clusters)
    curr_centroids,     \* [0..K-1 -> point]
    prev_centroids,     \* the name bound on line 71
    nearest_clusters,   \* [0..H*W-1 -> 0..K-1]
    iterations,         \* number of times the loop body of line 63 was entered
    bandwidth,          \* meanshift_segmentation
    mask,               \* [0..H*W-1 -> {0, 1}], 1 = not seen yet
    clusters,           \* list of modes
    idx,                \* seed of the current trajectory
    seeds,              \* history: the pixels drawn as seeds on line 141
    trajectories,       \* history: number of passes of the loop of line 139
    current_mean, prev_mean,
    pixel_clusters,     \* the label grid: [0..H-1 -> [0..W-1 -> label]]
    cluster_count, average_color, out_im   \* draw_clusters_on_image

vars == <<pc, H, W, im, is_int, features, features_normalized, num_clusters,
          init_idx, curr_centroids, prev_centroids, nearest_clusters,
          iterations, bandwidth, mask, clusters, idx, seeds, trajectories,
          current_mean, prev_mean, pixel_clusters, cluster_count, average_color, out_im>>

imVars == <<H, W, im, is_int>>
fvVars == <<features_normalized>>
kmVars == <<num_clusters, init_idx, curr_centroids, prev_centroids,
            nearest_clusters, iterations>>
msVars == <<bandwidth, mask, clusters, idx, seeds, trajectories,
            current_mean, prev_mean>>
drVars == <<cluster_count, average_color, out_im>>

None == <<>>

(* ------------------------- exact arithmetic --------------------------- *)
RECURSIVE SeqSum(_)
SeqSum(s) == IF s = <<>> THEN 0 ELSE Head(s) + SeqSum(Tail(s))

RECURSIVE SetSum(_, _)
\* sum of f[i] over i in S
SetSum(f, S) ==
    IF S = {} THEN 0
    ELSE LET i == CHOOSE j \in S : TRUE IN f[i] + SetSum(f, S \ {i})

\* ||v||^2
NormSq(v) == SeqSum([k \in 1..Len(v) |-> v[k] * v[k]])

Pixels == 0..(H * W - 1)
M == Len(features[0])

\* a feature row read as a float vector
AsPoint(x) == [s |-> x, n |-> 1]
IsNaN(p) == p.n = 0

\* np.mean(features[S], axis=0) for a set S of row indices
MeanOf(S) ==
    [s |-> [k \in 1..M |-> SetSum([i \in S |-> features[i][k]], S)],
     n |-> Cardinality(S)]

\* ||x - p||^2 * p.n^2 for a feature row x and a point p
RowDistNum(x, p) == NormSq([k \in 1..Len(x) |-> x[k] * p.n - p.s[k]])

\* ||p - q||^2 * (p.n * q.n)^2 for two points
PointDistNum(p, q) == NormSq([k \in 1..Len(p.s) |-> p.s[k] * q.n - q.s[k] * p.n])

\* lhs * c < rhs over the integers (c >= 1), written without the product
ScaledLess(lhs, c, rhs) == rhs >= 1 /\ lhs <= (rhs - 1) \div c

\* np.linalg.norm(x - p) < np.linalg.norm(x - q); false when either is NaN
RowCloser(x, p, q) ==
    /\ ~IsNaN(p) /\ ~IsNaN(q)
    /\ RowDistNum(x, p) * q.n * q.n < RowDistNum(x, q) * p.n * p.n

\* elementwise p == q of two float vectors; NaN equals nothing
PointEq(p, q) ==
    /\ ~IsNaN(p) /\ ~IsNaN(q)
    /\ \A k \in 1..Len(p.s) : p.s[k] * q.n = q.s[k] * p.n

RECURSIVE ArgMinScan(_, _, _, _)
\* np.argmin of the distances from row x to pts[0..cnt-1]: the first NaN if
\* there is one, else the first occurrence of the minimum; j is the next
\* index to look at and best the index held so far
ArgMinScan(x, pts, j, best) ==
    IF j \notin DOMAIN pts THEN best
    ELSE IF IsNaN(pts[best]) THEN best
    ELSE IF IsNaN(pts[j]) \/ RowCloser(x, pts[j], pts[best])
         THEN ArgMinScan(x, pts, j + 1, j)
         ELSE ArgMinScan(x, pts, j + 1, best)

ArgMin(x, pts) == ArgMinScan(x, pts, 1, 0)

\* np.reshape(v, (H, W)), and the grid filled by pixel_clusters[i / W, i % W]
Reshape(v) == [r \in 0..(H - 1) |-> [c \in 0..(W - 1) |-> v[r * W + c]]]

(* ------------------------------ inputs -------------------------------- *)
Shapes(maxpix) ==
    {hw \in (1..maxpix) \X (1..maxpix) : hw[1] * hw[2] <= maxpix}

\* shapes of the clusterers' inputs: H and W are read only by the final
\* reshape, so of a shape and its transpose the wider one is kept
WideShapes == {hw \in Shapes(MaxPixels) : hw[1] <= hw[2]}

\* one-column feature tables; both clusterers use the table only through
\* per-row sums, means and comparisons, so tables are listed up to the order
\* of their rows
Tables(n) ==
    {t \in [0..(n - 1) -> {<<v>> : v \in FeatVals}] :
        \A i \in 0..(n - 2) : t[i][1] <= t[i + 1][1]}

(* ----------------------- kmeans_segmentation -------------------------- *)
InitKM ==
    /\ pc = "k_start"
    /\ \E hw \in WideShapes :
          /\ H = hw[1] /\ W = hw[2]
          /\ features \in Tables(hw[1] * hw[2])
    /\ num_clusters \in 1..MaxK
    /\ im = None /\ is_int = FALSE
    /\ features_normalized = None
    /\ init_idx = None /\ curr_centroids = None /\ prev_centroids = None
    /\ nearest_clusters = None /\ iterations = 0
    /\ bandwidth = 0 /\ mask = None /\ clusters = <<>> /\ idx = 0
    /\ seeds = {} /\ trajectories = 0
    /\ current_mean = None /\ prev_mean = None
    /\ pixel_clusters = None
    /\ cluster_count = None /\ average_color = None /\ out_im = None

\* lines 56-60: the initial centroids are K rows drawn with replacement
KStart ==
    /\ pc = "k_start"
    /\ \E r \in [0..(num_clusters - 1) -> Pixels] :
          /\ init_idx' = r
          /\ curr_centroids' = [j \in 0..(num_clusters - 1) |-> AsPoint(features[r[j]])]
    /\ pc' = "k_assign"
    /\ UNCHANGED <<imVars, features, fvVars, num_clusters, prev_centroids,
                   nearest_clusters, iterations, msVars, pixel_clusters, drVars>>

\* lines 65-68
Assignment(cents) == [i \in Pixels |-> ArgMin(features[i], cents)]

KAssign ==
    /\ pc = "k_assign"
    /\ iterations < MaxIter
    /\ iterations' = iterations + 1
    /\ nearest_clusters' = Assignment(curr_centroids)
    /\ pc' = "k_save"
    /\ UNCHANGED <<imVars, features, fvVars, num_clusters, init_idx,
                   curr_centroids, prev_centroids, msVars, pixel_clusters, drVars>>

\* line 71: prev_centroids names the same ndarray as curr_centroids
KSave ==
    /\ pc = "k_save"
    /\ prev_centroids' = curr_centroids
    /\ pc' = "k_update"
    /\ UNCHANGED <<imVars, features, fvVars, num_clusters, init_idx,
                   curr_centroids, nearest_clusters, iterations, msVars,
                   pixel_clusters, drVars>>

\* lines 74-76
Update(nearest) ==
    [j \in 0..(num_clusters - 1) |-> MeanOf({i \in Pixels : nearest[i] = j})]

\* mutant: line 71 took a copy
PrevAfterUpdateCopy(old, new) == old

\* what prev_centroids holds once lines 74-76 have written the new rows
\* into the array curr_centroids names: the array is the one line 71 bound
\* prev_centroids to, so the writes show through both names
PrevAfterUpdate(old, new) == new

KUpdate ==
    /\ pc = "k_update"
    /\ curr_centroids' = Update(nearest_clusters)
    /\ prev_centroids' = PrevAfterUpdate(prev_centroids, Update(nearest_clusters))
    /\ pc' = "k_test"
    /\ UNCHANGED <<imVars, features, fvVars, num_clusters, init_idx,
                   nearest_clusters, iterations, msVars, pixel_clusters, drVars>>

\* np.array_equal(a, b)
ArrayEqual(a, b) == \A j \in DOMAIN a : PointEq(a[j], b[j])

\* lines 79-80
KTest ==
    /\ pc = "k_test"
    /\ pc' = IF ArrayEqual(curr_centroids, prev_centroids) THEN "k_return" ELSE "k_assign"
    /\ UNCHANGED <<imVars, features, fvVars, kmVars, msVars, pixel_clusters, drVars>>

\* lines 83-84
KReturn ==
    /\ pc = "k_return"
    /\ pixel_clusters' = Reshape(nearest_clusters)
    /\ pc' = "k_done"
    /\ UNCHANGED <<imVars, features, fvVars, kmVars, msVars, drVars>>

NextKM == KStart \/ KAssign \/ KSave \/ KUpdate \/ KTest \/ KReturn

SpecKM == InitKM /\ [][NextKM]_vars

(* ---------------------- meanshift_segmentation ------------------------ *)
\* the 0.01 of line 153 and the 0.5 of line 159, as 1/100 and 1/2
ConvergeDiv == 100
MergeDiv == 2

InitMS ==
    /\ pc = "m_start"
    /\ \E hw \in WideShapes :
          /\ H = hw[1] /\ W = hw[2]
          /\ features \in Tables(hw[1] * hw[2])
    /\ bandwidth \in Bandwidths
    /\ im = None /\ is_int = FALSE
    /\ features_normalized = None
    /\ num_clusters = 0
    /\ init_idx = None /\ curr_centroids = None /\ prev_centroids = None
    /\ nearest_clusters = None /\ iterations = 0
    /\ mask = None /\ clusters = <<>> /\ idx = 0
    /\ seeds = {} /\ trajectories = 0
    /\ current_mean = None /\ prev_mean = None
    /\ pixel_clusters = None
    /\ cluster_count = None /\ average_color = None /\ out_im = None

\* lines 134-137
MStart ==
    /\ pc = "m_start"
    /\ mask' = [i \in Pixels |-> 1]
    /\ clusters' = <<>>
    /\ pc' = "m_while"
    /\ UNCHANGED <<imVars, features, fvVars, kmVars, bandwidth, idx, seeds,
                   trajectories, current_mean, prev_mean, pixel_clusters, drVars>>

\* mutant: the seed is drawn among all pixels
UnseenAny(m) == Pixels

\* line 140: np.argwhere(mask > 0)
Unseen(m) == {j \in Pixels : m[j] > 0}

\* lines 139-145: a pixel drawn among those with mask > 0 starts a trajectory
MSelect ==
    /\ pc = "m_while"
    /\ SetSum(mask, Pixels) > 0
    /\ \E i \in Unseen(mask) :
          /\ idx' = i
          /\ seeds' = seeds \cup {i}
          /\ trajectories' = trajectories + 1
          /\ mask' = [mask EXCEPT ![i] = 0]
          /\ current_mean' = AsPoint(features[i])
          /\ prev_mean' = AsPoint(features[i])
    /\ pc' = "m_shift"
    /\ UNCHANGED <<imVars, features, fvVars, kmVars, bandwidth, clusters,
                   pixel_clusters, drVars>>

\* mutant: the circle has bandwidth as its diameter
InCircleHalf(x, p) ==
    /\ ~IsNaN(p)
    /\ 4 * RowDistNum(x, p) < bandwidth * bandwidth * p.n * p.n

\* lines 148-149: np.linalg.norm(features[i] - p) < bandwidth
InCircle(x, p) ==
    /\ ~IsNaN(p)
    /\ RowDistNum(x, p) < bandwidth * bandwidth * p.n * p.n

\* np.linalg.norm(p - q) < bandwidth / div
Within(p, q, div) ==
    /\ ~IsNaN(p) /\ ~IsNaN(q)
    /\ ScaledLess(PointDistNum(p, q), div * div,
                  bandwidth * bandwidth * p.n * p.n * q.n * q.n)

\* lines 148-155: one pass of the inner loop
MShift ==
    /\ pc = "m_shift"
    /\ LET incircle == {i \in Pixels : InCircle(features[i], prev_mean)}
           mean == MeanOf(incircle)
       IN  /\ mask' = [i \in Pixels |-> IF i \in incircle THEN 0 ELSE mask[i]]
           /\ current_mean' = mean
           /\ IF Within(mean, prev_mean, ConvergeDiv)
              THEN pc' = "m_merge" /\ prev_mean' = prev_mean
              ELSE pc' = "m_shift" /\ prev_mean' = mean
    /\ UNCHANGED <<imVars, features, fvVars, kmVars, bandwidth, clusters, idx,
                   seeds, trajectories, pixel_clusters, drVars>>

\* mutant: each pass of the loop of line 158 overwrites isValid
IsValidLast(cls, mean) ==
    cls = <<>> \/ ~Within(cls[Len(cls)], mean, MergeDiv)

\* lines 157-160
IsValid(cls, mean) == \A k \in 1..Len(cls) : ~Within(cls[k], mean, MergeDiv)

\* lines 157-162
MMerge ==
    /\ pc = "m_merge"
    /\ clusters' = IF IsValid(clusters, current_mean)
                   THEN Append(clusters, current_mean) ELSE clusters
    /\ pc' = "m_while"
    /\ UNCHANGED <<imVars, features, fvVars, kmVars, bandwidth, mask, idx,
                   seeds, trajectories, current_mean, prev_mean,
                   pixel_clusters, drVars>>

\* np.array(clusters): rows 0..len-1
ClusterArray(cls) == [j \in 0..(Len(cls) - 1) |-> cls[j + 1]]

RECURSIVE LabelPassTransposed(_, _, _)
\* mutant: the flat index is unfolded column by column
LabelPassTransposed(i, cls, grid) ==
    IF i >= H * W THEN grid
    ELSE LabelPassTransposed(i + 1, cls,
            [grid EXCEPT ![i % H][i \div H] = ArgMin(features[i], ClusterArray(cls))])

RECURSIVE LabelPass(_, _, _)
\* lines 166-168 from pixel i on: grid[i / W, i % W] = argmin
LabelPass(i, cls, grid) ==
    IF i >= H * W THEN grid
    ELSE LabelPass(i + 1, cls,
            [grid EXCEPT ![i \div W][i % W] = ArgMin(features[i], ClusterArray(cls))])

\* lines 139 (loop exit) and 164-169
MLabel ==
    /\ pc = "m_while"
    /\ ~(SetSum(mask, Pixels) > 0)
    /\ pixel_clusters' =
          LabelPass(0, clusters, [r \in 0..(H - 1) |-> [c \in 0..(W - 1) |-> 0]])
    /\ pc' = "m_done"
    /\ UNCHANGED <<imVars, features, fvVars, kmVars, msVars, drVars>>

NextMS == MStart \/ MSelect \/ MShift \/ MMerge \/ MLabel

SpecMS == InitMS /\ [][NextMS]_vars

\* either clusterer, called on a feature table
SpecClusterers == (InitKM \/ InitMS) /\ [][NextKM \/ NextMS]_vars

(* ----------------------- get_img_feature_vector ----------------------- *)
Images(h, w) == [0..(h - 1) -> [0..(w - 1) -> Colors]]

InitFV ==
    /\ pc = "f_start"
    /\ \E hw \in Shapes(MaxImgPixels) :
          /\ H = hw[1] /\ W = hw[2]
          /\ im \in Images(hw[1], hw[2])
    /\ is_int = TRUE
    /\ features = None /\ features_normalized = None
    /\ num_clusters = 0
    /\ init_idx = None /\ curr_centroids = None /\ prev_centroids = None
    /\ nearest_clusters = None /\ iterations = 0
    /\ bandwidth = 0 /\ mask = None /\ clusters = <<>> /\ idx = 0
    /\ seeds = {} /\ trajectories = 0
    /\ current_mean = None /\ prev_mean = None
    /\ pixel_clusters = None
    /\ cluster_count = None /\ average_color = None /\ out_im = None

\* lines 23-27: row row*W + col is [row, col, channel 0, 1, 2]
FFill ==
    /\ pc = "f_start"
    /\ features' =
          [i \in Pixels |->
              LET row == i \div W
                  col == i % W
              IN  <<row, col, im[row][col][1], im[row][col][2], im[row][col][3]>>]
    /\ pc' = "f_fill"
    /\ UNCHANGED <<imVars, fvVars, kmVars, msVars, pixel_clusters, drVars>>

SetMax(S) == CHOOSE m \in S : \A x \in S : x <= m

\* features.max(axis = 0)
ColumnMax(t) == [k \in 1..Len(t[0]) |-> SetMax({t[i][k] : i \in DOMAIN t})]

\* x / m in floating point, for x >= 0 and m >= x: <<0, 0>> is NaN
Quotient(x, m) == <<x, m>>

\* lines 28-29
FNormalize ==
    /\ pc = "f_fill"
    /\ features_normalized' =
          [i \in Pixels |->
              [k \in 1..Len(features[i]) |->
                  Quotient(features[i][k], ColumnMax(features)[k])]]
    /\ pc' = "f_done"
    /\ UNCHANGED <<imVars, features, kmVars, msVars, pixel_clusters, drVars>>

NextFV == FFill \/ FNormalize

SpecFV == InitFV /\ [][NextFV]_vars

(* ----------------------- draw_clusters_on_image ----------------------- *)
InitDraw ==
    /\ pc = "d_start"
    /\ \E hw \in Shapes(MaxImgPixels) :
          /\ H = hw[1] /\ W = hw[2]
          /\ im \in Images(hw[1], hw[2])
          /\ pixel_clusters \in [0..(hw[1] - 1) -> [0..(hw[2] - 1) -> 0..MaxLabel]]
    /\ is_int \in BOOLEAN
    /\ features = None /\ features_normalized = None
    /\ num_clusters = 0
    /\ init_idx = None /\ curr_centroids = None /\ prev_centroids = None
    /\ nearest_clusters = None /\ iterations = 0
    /\ bandwidth = 0 /\ mask = None /\ clusters = <<>> /\ idx = 0
    /\ seeds = {} /\ trajectories = 0
    /\ current_mean = None /\ prev_mean = None
    /\ cluster_count = None /\ average_color = None /\ out_im = None

Cells == (0..(H - 1)) \X (0..(W - 1))
Channels == 1..3

\* lines 173-181: per label, the pixel count and the channel sums
DAccumulate ==
    /\ pc = "d_start"
    /\ LET n == SetMax({pixel_clusters[ij[1]][ij[2]] : ij \in Cells}) + 1
           members(c) == {ij \in Cells : pixel_clusters[ij[1]][ij[2]] = c}
       IN  /\ cluster_count' = [c \in 0..(n - 1) |-> Cardinality(members(c))]
           /\ average_color' =
                 [c \in 0..(n - 1) |->
                     [k \in Channels |->
                         <<SetSum([ij \in members(c) |-> im[ij[1]][ij[2]][k]],
                                  members(c)), 1>>]]
    /\ pc' = "d_average"
    /\ UNCHANGED <<imVars, features, fvVars, kmVars, msVars, pixel_clusters, out_im>>

\* lines 183-184: average_color[c, :] /= float(cluster_count[c])
DAverage ==
    /\ pc = "d_average"
    /\ average_color' =
          [c \in DOMAIN average_color |->
              [k \in Channels |-> <<average_color[c][k][1], cluster_count[c]>>]]
    /\ pc' = "d_paint"
    /\ UNCHANGED <<imVars, features, fvVars, kmVars, msVars, pixel_clusters,
                   cluster_count, out_im>>

\* mutant: the output array is a float array
StoreFloat(v, isint) == v

\* the store of the float v = <<num, den>> (num >= 0, den > 0) into an array
\* of im's element type: np.zeros_like(im) keeps the dtype, and a float
\* stored into an integer array is truncated
Store(v, isint) == IF isint THEN <<v[1] \div v[2], 1>> ELSE v

\* lines 186-192
DPaint ==
    /\ pc = "d_paint"
    /\ out_im' =
          [i \in 0..(H - 1) |->
              [j \in 0..(W - 1) |->
                  [k \in Channels |->
                      Store(average_color[pixel_clusters[i][j]][k], is_int)]]]
    /\ pc' = "d_done"
    /\ UNCHANGED <<imVars, features, fvVars, kmVars, msVars, pixel_clusters,
                   cluster_count, average_color>>

NextDraw == DAccumulate \/ DAverage \/ DPaint

SpecDraw == InitDraw /\ [][NextDraw]_vars

(* ------- get_img_feature_vector, then kmeans_segmentation, K = 2 ------- *)
\* 4 x 4 images of two flat colours: left and right halves, or top and bottom
TwoRegionImages ==
    {[r \in 0..3 |-> [c \in 0..3 |->
          IF (IF cut = "columns" THEN c ELSE r) < 2 THEN ab[1] ELSE ab[2]]] :
       cut \in {"columns", "rows"},
       ab \in {<<ColorA, ColorB>>, <<ColorB, ColorA>>}}

InitE2E ==
    /\ pc = "f_start"
    /\ H = 4 /\ W = 4
    /\ im \in TwoRegionImages
    /\ is_int = TRUE
    /\ features = None /\ features_normalized = None
    /\ num_clusters = 2
    /\ init_idx = None /\ curr_centroids = None /\ prev_centroids = None
    /\ nearest_clusters = None /\ iterations = 0
    /\ bandwidth = 0 /\ mask = None /\ clusters = <<>> /\ idx = 0
    /\ seeds = {} /\ trajectories = 0
    /\ current_mean = None /\ prev_mean = None
    /\ pixel_clusters = None
    /\ cluster_count = None /\ average_color = None /\ out_im = None

RECURSIVE GCD(_, _)
GCD(a, b) == IF b = 0 THEN a ELSE GCD(b, a % b)
LCM(a, b) == (a * b) \div GCD(a, b)

RECURSIVE SetLCM(_)
SetLCM(S) ==
    IF S = {} THEN 1
    ELSE LET a == CHOOSE x \in S : TRUE IN LCM(a, SetLCM(S \ {a}))

\* a table of quotients without NaN, as integers in the unit 1 / (the least
\* common multiple of the denominators)
InUnits(t) ==
    LET unit == SetLCM({t[i][k][2] : i \in DOMAIN t, k \in 1..Len(t[0])})
    IN  [i \in DOMAIN t |->
            [k \in 1..Len(t[i]) |-> t[i][k][1] * (unit \div t[i][k][2])]]

\* the table returned on line 29 is the features argument of line 55
E2ECall ==
    /\ pc = "f_done"
    /\ \A i \in Pixels : \A k \in 1..Len(features_normalized[i]) :
          features_normalized[i][k][2] # 0
    /\ features' = InUnits(features_normalized)
    /\ pc' = "k_start"
    /\ UNCHANGED <<imVars, fvVars, kmVars, msVars, pixel_clusters, drVars>>

NextE2E == NextFV \/ E2ECall \/ NextKM

SpecE2E == InitE2E /\ [][NextE2E]_vars

(* ============================== claims ================================ *)
LabelSet == {pixel_clusters[r][c] : r \in 0..(H - 1), c \in 0..(W - 1)}

\* C1: every entry of a returned label grid lies in 0..N-1 and every value of
\* 0..N-1 labels at least one pixel, N being num_clusters for
\* kmeans_segmentation and the number of modes for meanshift_segmentation.
C1_LabelsCoverRange ==
    /\ pc = "k_done" => LabelSet = 0..(num_clusters - 1)
    /\ pc = "m_done" => LabelSet = 0..(Len(clusters) - 1)

\* C2: when kmeans_segmentation has left its loop, one more assignment step
\* and one more update step on the final centroids give the same centroids
\* and the same label grid.
C2_FixedPoint ==
    pc = "k_done" =>
        /\ Assignment(curr_centroids) = nearest_clusters
        /\ Reshape(Assignment(curr_centroids)) = pixel_clusters
        /\ ArrayEqual(Update(Assignment(curr_centroids)), curr_centroids)

AllReceived(nearest) ==
    \A j \in 0..(num_clusters - 1) : \E i \in Pixels : nearest[i] = j
HasNaN(cents) == \E j \in DOMAIN cents : IsNaN(cents[j])
InitialCentroids == [j \in 0..(num_clusters - 1) |-> AsPoint(features[init_idx[j]])]

SeedIsFresh ==
    (pc = "m_while" /\ pc' = "m_shift") =>
        /\ mask[idx'] = 1 /\ mask'[idx'] = 0
        /\ idx' \notin seeds
        /\ seeds' = seeds \cup {idx'}
        /\ trajectories' = trajectories + 1
\* a pixel leaves the unseen state only as the seed or inside the circle of
\* the mean of the current trajectory, and never comes back
SeenForGood ==
    pc # "m_start" =>
        \A i \in Pixels :
            /\ mask[i] = 0 => mask'[i] = 0
            /\ (mask[i] = 1 /\ mask'[i] = 0) =>
                  \/ pc = "m_while" /\ i = idx'
                  \/ pc = "m_shift" /\ InCircle(features[i], prev_mean)
AllSeenAtEnd ==
    /\ pc \in {"m_while", "m_shift", "m_merge", "m_done"} =>
          Cardinality(seeds) = trajectories
    /\ pc = "m_done" => \A i \in Pixels : mask[i] = 0

\* C3: each trajectory seed is unseen when drawn, so no pixel is a seed
\* twice; a seen pixel never becomes unseen; when discovery ends every pixel
\* is seen, each as a seed or by lying strictly within bandwidth of a
\* trajectory mean.
C3_Visited == [][SeedIsFresh]_vars /\ [][SeenForGood]_vars /\ []AllSeenAtEnd

C3_Witness ==
    /\ pc = "m_done" /\ trajectories >= 2
    /\ \E i \in Pixels : i \notin seeds

\* distance from row i to mode a is smaller than to mode b (0-based modes)
ModeCloser(i, a, b) == RowCloser(features[i], clusters[a + 1], clusters[b + 1])

\* C4: the grid entry at (i div W, i mod W) is the index of the mode nearest
\* to feature row i, the lowest such index on a tie.
C4_NearestMode ==
    pc = "m_done" =>
        \A i \in Pixels :
            LET l == pixel_clusters[i \div W][i % W]
            IN  /\ l \in 0..(Len(clusters) - 1)
                /\ \A j \in 0..(Len(clusters) - 1) :
                      /\ ~ModeCloser(i, j, l)
                      /\ j < l => ModeCloser(i, l, j)

C4_Witness ==
    /\ pc = "m_done" /\ H >= 2 /\ W >= 2 /\ Len(clusters) >= 2
    /\ \E i \in Pixels : pixel_clusters[i \div W][i % W] = 1
    /\ \E i \in Pixels : \E a, b \in 0..(Len(clusters) - 1) :
          /\ a < b
          /\ pixel_clusters[i \div W][i % W] = a
          /\ ~ModeCloser(i, a, b) /\ ~ModeCloser(i, b, a)

\* bandwidth exceeds every pairwise distance of feature rows
BigBandwidth ==
    \A i, j \in Pixels :
        NormSq([k \in 1..M |-> features[i][k] - features[j][k]])
            < bandwidth * bandwidth

\* C7: with bandwidth above the largest pairwise distance there is one
\* trajectory, its mode is the mean of all rows, the cluster set is that one
\* mode and every label is 0, whichever seed is drawn.
C7_OneCluster ==
    (pc \notin {"m_start", "k_start"} /\ bandwidth > 0 /\ BigBandwidth) =>
        /\ trajectories <= 1
        /\ pc = "m_shift" =>
              \/ prev_mean = AsPoint(features[idx])
              \/ PointEq(prev_mean, MeanOf(Pixels))
        /\ pc = "m_merge" =>
              /\ PointEq(current_mean, MeanOf(Pixels))
              /\ clusters = <<>>
              /\ \A i \in Pixels : mask[i] = 0
        /\ (pc = "m_while" /\ trajectories > 0) => \A i \in Pixels : mask[i] = 0
        /\ pc = "m_done" =>
              /\ trajectories = 1
              /\ Len(clusters) = 1
              /\ PointEq(clusters[1], MeanOf(Pixels))
              /\ LabelSet = {0}

C7_Witness ==
    /\ pc = "m_done" /\ BigBandwidth /\ H * W >= 4
    /\ \E i, j \in Pixels : features[i] # features[j]
    /\ ~PointEq(clusters[1], AsPoint(features[idx]))

\* the cluster set changes only by line 162 appending the converged mean
OnlyAppends ==
    \/ clusters' = clusters
    \/ /\ pc = "m_merge"
       /\ clusters' = Append(clusters, current_mean)
       /\ \A k \in 1..Len(clusters) :
             4 * PointDistNum(clusters[k], current_mean) >=
                bandwidth * bandwidth * clusters[k].n * clusters[k].n
                          * current_mean.n * current_mean.n
ModesApart ==
    pc \in {"m_while", "m_shift", "m_merge", "m_done"} =>
        /\ (trajectories >= 2 \/ (trajectories = 1 /\ pc \in {"m_while", "m_done"}))
              => clusters # <<>>
        /\ \A a, b \in 1..Len(clusters) :
              a # b =>
                 4 * PointDistNum(clusters[a], clusters[b]) >=
                    bandwidth * bandwidth * clusters[a].n * clusters[a].n
                              * clusters[b].n * clusters[b].n

\* C10: during discovery the cluster set only grows by appending, it is
\* non-empty after the first trajectory, and two distinct modes are at least
\* half a bandwidth apart.
C10_ClusterSet == [][OnlyAppends]_vars /\ []ModesApart

C10_Witness ==
    /\ pc = "m_while" /\ Len(clusters) >= 2
    /\ trajectories > Len(clusters)

\* C5: the 4 x 4 two-colour image, through get_img_feature_vector and
\* kmeans_segmentation with K = 2, gets a label grid in which two pixels
\* share a label exactly when they share a colour, whichever initial
\* centroids are drawn.
C5_SeparatesRegions ==
    pc = "k_done" =>
        \A a, b \in Cells :
            (pixel_clusters[a[1]][a[2]] = pixel_clusters[b[1]][b[2]])
                <=> (im[a[1]][a[2]] = im[b[1]][b[2]])

SameShape ==
    /\ DOMAIN out_im = DOMAIN im
    /\ \A i \in DOMAIN im :
          /\ DOMAIN out_im[i] = DOMAIN im[i]
          /\ \A j \in DOMAIN im[i] : DOMAIN out_im[i][j] = DOMAIN im[i][j]
\* the cells carrying the label of cell ij, and their sum of channel k
SameLabel(ij) ==
    {xy \in Cells : pixel_clusters[xy[1]][xy[2]] = pixel_clusters[ij[1]][ij[2]]}
ChannelSum(S, k) == SetSum([xy \in S |-> im[xy[1]][xy[2]][k]], S)

\* C6 as stated: the output has the shape of the input and every output
\* value is the mean of its channel over the pixels carrying the same label.
C6_MeanColor ==
    pc = "d_done" =>
        /\ SameShape
        /\ \A ij \in Cells : \A k \in Channels :
              LET out == out_im[ij[1]][ij[2]][k]
              IN  /\ out[2] > 0
                  /\ out[1] * Cardinality(SameLabel(ij))
                        = out[2] * ChannelSum(SameLabel(ij), k)

\* C6 amended: the output has the shape of the input; for a floating-point
\* image every output value is the mean of its channel over the pixels
\* carrying the same label, and for an integer image it is that mean
\* rounded down to an integer.
C6_MeanColorInDtype ==
    pc = "d_done" =>
        /\ SameShape
        /\ \A ij \in Cells : \A k \in Channels :
              LET out == out_im[ij[1]][ij[2]][k]
                  cnt == Cardinality(SameLabel(ij))
                  sum == ChannelSum(SameLabel(ij), k)
              IN  IF is_int
                  THEN /\ out[2] = 1
                       /\ out[1] * cnt <= sum
                       /\ sum < (out[1] + 1) * cnt
                  ELSE out[2] > 0 /\ out[1] * cnt = out[2] * sum

C6_Witness ==
    /\ pc = "d_done" /\ is_int /\ H = 2 /\ W = 2
    /\ Cardinality({ij \in Cells : pixel_clusters[ij[1]][ij[2]] = 0}) = 2
    /\ Cardinality({ij \in Cells : pixel_clusters[ij[1]][ij[2]] = 1}) = 2
    /\ \E ij \in Cells : \E k \in Channels :
          ChannelSum(SameLabel(ij), k) % 2 = 1

\* C8: every entry of the table get_img_feature_vector returns is a defined
\* number in [0, 1], its column having been divided by the column maximum,
\* single-row and single-column images and all-zero channels included.
C8_FeaturesInUnitRange ==
    pc = "f_done" =>
        \A i \in Pixels : \A k \in 1..5 :
            LET q == features_normalized[i][k]
            IN  /\ q[2] # 0
                /\ 0 <= q[1] /\ q[1] <= q[2]
                /\ \A j \in Pixels : features_normalized[j][k][2] = q[2]
                /\ \E j \in Pixels : features[j][k] = q[2]

=============================================================================
